---- MODULE Spec2Model ----
(***************************************************************************)
(* State-machine model of the Move module curg_mosaic_reveal::mosaic       *)
(* (contract/sources/curg_mosaic_reveal.move): one shared Game object, the *)
(* OracleCap, and the entry functions create_game, request_reveal,         *)
(* fulfill_reveal, commit_guess and solve.                                 *)
(*                                                                         *)
(* Every entry function runs as one Sui transaction.  A Move abort rolls   *)
(* the whole transaction back: the object keeps the fields it had before   *)
(* the call, whatever the function had already written.  Each function is  *)
(* therefore modelled as an operator that walks the source top to bottom   *)
(* and returns either an abort (code and source line of the failed         *)
(* assert!) or the written fields; Execute applies the written fields only *)
(* when the call did not abort.                                            *)
(*                                                                         *)
(* vector<u8> values are sequences of bytes.  keccak256 is modelled as a   *)
(* collision-free digest: the preimage behind a tag byte that no input     *)
(* byte uses.  Concatenation is real sequence concatenation, so two        *)
(* different (answer, salt) pairs with the same concatenation have the     *)
(* same digest, as on chain.                                               *)
(***************************************************************************)
EXTENDS Naturals, Integers, Sequences, FiniteSets, TLC

\* ---------------------------------------------------------------- constants
EGameAlreadySolved == 0
EInvalidPayment == 1
EInvalidTileIndex == 2
ETileAlreadyRevealed == 3
EIncorrectAnswer == 4
ENoCommitmentFound == 5
ECommitmentTooFresh == 6
\* std::vector's abort code when borrow/borrow_mut is given an index >= length
EINDEX_OUT_OF_BOUNDS == 131072

TILE_PRICE == 1000
TOTAL_TILES == 100

\* ------------------------------------------------------------------- bounds
\* accepted request_reveal calls explored (caps the pot and the event log)
MaxRequests == 2
\* largest clock reading explored
MaxClock == 1
\* pending transactions held in the mempool at once
MaxPending == 2
\* calls of the oracle bot (event query, object read, key recovery,
\* transaction) that fail during one run
MaxFaults == 1

\* ------------------------------------------------------------------- inputs
ADMIN == "ADMIN"
PLAYER_A == "PLAYER_A"
PLAYER_B == "PLAYER_B"
Players == {PLAYER_A, PLAYER_B}
Addresses == {ADMIN} \cup Players

\* Option<T> is a vector of zero or one element
None == <<>>
Some(x) == <<x>>
is_none(o) == Len(o) = 0
is_some(o) == Len(o) = 1

\* answers and salts the callers try; <<1>> \o <<2>> = <<1, 2>> \o <<>>
AnswerInputs == {<<1>>, <<1, 2>>}
SaltInputs == {<<>>, <<2>>}
GameSaltInputs == {<<>>, <<2>>}
KeyInputs == {<<1>>, <<2>>}
TileInputs == {0, TOTAL_TILES - 1, TOTAL_TILES}
PaymentInputs == {TILE_PRICE - 1, TILE_PRICE, 1000000000}
LengthInputs == {TOTAL_TILES - 1, TOTAL_TILES, TOTAL_TILES + 1}

\* sui::hash::keccak256, collision-free: tag byte 0 followed by the preimage
keccak256(data) == <<0>> \o data

\* digests a caller may pass to commit_guess
DigestInputs == {keccak256(a \o s) : a \in AnswerInputs, s \in SaltInputs}
\* the answer digest handed to create_game: the answer is <<1>>
AnswerHashInput == keccak256(<<1>>)

\* -------------------------------------------------------------------- state
VARIABLES
    created,              \* the shared Game object exists
    creator,
    answer_hash,
    walrus_blob_id,
    encrypted_tile_keys,
    encryption_ids,
    decrypted_tile_keys,  \* vector<Option<vector<u8>>>, tile i at index i + 1
    pot,                  \* value of Balance<SUI>
    is_solved,
    winner,               \* Option<address>
    guess_commitments,    \* Table<address, Commitment>: Option per address
    cap_owner,            \* address owning the OracleCap, or where the cap
                          \* is when none does (Immutable, Wrapped)
    clock,                \* timestamp_ms of the Clock object
    paid,                 \* SUI each address has paid into the game
    received,             \* SUI the game has transferred to each address
    events,               \* emitted events, one log per event type
    last,                 \* the last transaction: function, sender, outcome
    mempool,              \* transactions submitted, not yet ordered
    knows,                \* answers each address can put in a transaction:
                          \* own (worked out itself), seen (read in the
                          \* pending transactions of others)
    bot                   \* the oracle bot: position in startListener /
                          \* handleRevealRequest, cursor, fetched page

gameVars == <<created, creator, answer_hash, walrus_blob_id, encrypted_tile_keys,
              encryption_ids, decrypted_tile_keys, pot, is_solved, winner,
              guess_commitments, paid, received, events>>
envVars == <<mempool, knows, bot>>
vars == <<gameVars, cap_owner, clock, last, envVars>>

\* ------------------------------------------------------------------ helpers
\* table::contains / table::remove / table::add on guess_commitments
table_contains(t, k) == is_some(t[k])
\* a removal that empties the whole table
table_clear(t, k) == [a \in DOMAIN t |-> None]
table_remove(t, k) == [t EXCEPT ![k] = None]
table_add(t, k, v) == [t EXCEPT ![k] = Some(v)]

NoEvents == [requested |-> <<>>, revealed |-> <<>>, solved |-> <<>>]

\* outcome of a call: an abort, or the Game fields it leaves
\* (writes: the fields as the function had written them when it stopped)
Abort(c, l, w) == [status |-> "abort", code |-> c, line |-> l, writes |-> w]
Success(w) == [status |-> "success", code |-> 0, line |-> 0, writes |-> w]

\* the fields of Game (and the effects outside it) as one record
Game == [created |-> created, creator |-> creator, answer_hash |-> answer_hash,
         walrus_blob_id |-> walrus_blob_id,
         encrypted_tile_keys |-> encrypted_tile_keys,
         encryption_ids |-> encryption_ids,
         decrypted_tile_keys |-> decrypted_tile_keys, pot |-> pot,
         is_solved |-> is_solved, winner |-> winner,
         guess_commitments |-> guess_commitments, paid |-> paid,
         received |-> received,
         events |-> events]

\* writes made before an abort left in place
Commit_nonatomic(r) == r.writes
\* transaction semantics: an aborted call leaves every field as it was
Commit(r) == IF r.status = "success" THEN r.writes ELSE Game

Execute(g) ==
    /\ created' = g.created
    /\ creator' = g.creator
    /\ answer_hash' = g.answer_hash
    /\ walrus_blob_id' = g.walrus_blob_id
    /\ encrypted_tile_keys' = g.encrypted_tile_keys
    /\ encryption_ids' = g.encryption_ids
    /\ decrypted_tile_keys' = g.decrypted_tile_keys
    /\ pot' = g.pot
    /\ is_solved' = g.is_solved
    /\ winner' = g.winner
    /\ guess_commitments' = g.guess_commitments
    /\ paid' = g.paid
    /\ received' = g.received
    /\ events' = g.events

Outcome(op, sender, args, r) ==
    [op |-> op, sender |-> sender, args |-> args,
     status |-> r.status, code |-> r.code, line |-> r.line]

\* -------------------------------------------------------- entry functions
\* bytes of the i-th encryption id handed to create_game: ids 2, 3 and 4 are
\* the two-, three- and four-byte encodings of U+00E9, U+20AC and U+1F600,
\* the others one ASCII byte; 255 is not UTF-8
IdBytes(n, valid) ==
    [i \in 1..n |->
        IF i = 1 /\ ~valid THEN <<255>>
        ELSE IF i = 2 THEN <<195, 169>>
        ELSE IF i = 3 THEN <<226, 130, 172>>
        ELSE IF i = 4 THEN <<240, 159, 152, 128>>
        ELSE <<i>>]
EncryptedKeys(n) == [i \in 1..n |-> <<i, i>>]

\* bytes k..k+n-1 exist and are continuation bytes 0x80..0xBF
continuation(bytes, k, n) ==
    /\ k + n - 1 <= Len(bytes)
    /\ \A j \in k..(k + n - 1) : bytes[j] \in 128..191

\* the second byte of a sequence led by b: the ranges that exclude overlong
\* encodings (0xE0, 0xF0), surrogates (0xED) and code points above U+10FFFF
\* (0xF4)
second_byte(b) ==
    IF b = 224 THEN 160..191
    ELSE IF b = 237 THEN 128..159
    ELSE IF b = 240 THEN 144..191
    ELSE IF b = 244 THEN 128..143
    ELSE 128..191

\* length of the sequence led by b, 0 when b cannot lead one
sequence_length(b) ==
    IF b < 128 THEN 1
    ELSE IF b \in 194..223 THEN 2
    ELSE IF b \in 224..239 THEN 3
    ELSE IF b \in 240..244 THEN 4
    ELSE 0

RECURSIVE utf8_from(_, _)
utf8_from(bytes, k) ==
    IF k > Len(bytes) THEN TRUE
    ELSE LET n == sequence_length(bytes[k]) IN
         /\ n > 0
         /\ continuation(bytes, k + 1, n - 1)
         /\ n > 1 => bytes[k + 1] \in second_byte(bytes[k])
         /\ utf8_from(bytes, k + n)

\* the check of string::utf8: the bytes are well-formed UTF-8
is_utf8(bytes) == utf8_from(bytes, 1)
EInvalidUTF8 == 1

\* a vector longer than the tile count let through
length_ok_atleast(v) == Len(v) >= TOTAL_TILES
\* the condition of assert!(vector::length(&v) == TOTAL_TILES, EInvalidPayment)
length_ok(v) == Len(v) = TOTAL_TILES

create_game(sender, answer_hash_in, blob, encrypted_keys, encryption_ids_bytes) ==
    IF ~length_ok(encrypted_keys) THEN Abort(EInvalidPayment, 95, Game)
    ELSE IF ~length_ok(encryption_ids_bytes) THEN Abort(EInvalidPayment, 96, Game)
    ELSE IF \E i \in 1..TOTAL_TILES : ~is_utf8(encryption_ids_bytes[i])
    THEN Abort(EInvalidUTF8, 103, Game)
    ELSE Success([Game EXCEPT
            !.created = TRUE,
            !.creator = sender,
            !.answer_hash = answer_hash_in,
            !.walrus_blob_id = blob,
            !.encrypted_tile_keys = encrypted_keys,
            !.encryption_ids = encryption_ids_bytes,
            !.decrypted_tile_keys = [i \in 1..TOTAL_TILES |-> None],
            !.pot = 0,
            !.is_solved = FALSE,
            !.winner = None,
            !.guess_commitments = [a \in Addresses |-> None]])

\* fulfill_reveal filling the slot whatever it holds
fulfill_reveal_overwrite(tile_index, decrypted_key) ==
    IF ~(tile_index < Len(decrypted_tile_keys))
    THEN Abort(EINDEX_OUT_OF_BOUNDS, 172, Game)
    ELSE Success([Game EXCEPT
            !.decrypted_tile_keys[tile_index + 1] = Some(decrypted_key),
            !.events.revealed = Append(events.revealed,
                [tile_index |-> tile_index, decrypted_key |-> decrypted_key])])

\* the solved check left out
not_solved_unchecked == TRUE
\* the condition of assert!(!game.is_solved, EGameAlreadySolved)
not_solved == ~is_solved

\* a payment of at least the price let through
payment_ok_atleast(payment) == payment >= TILE_PRICE
\* the condition of assert!(coin::value(&payment) == TILE_PRICE, EInvalidPayment)
payment_ok(payment) == payment = TILE_PRICE

\* an index equal to the tile count let through
tile_in_range_inclusive(tile_index) == tile_index <= TOTAL_TILES
\* the condition of assert!(tile_index < TOTAL_TILES, EInvalidTileIndex)
tile_in_range(tile_index) == tile_index < TOTAL_TILES

\* the revealed check left out
tile_unrevealed_unchecked(tile_index) == TRUE
\* a tile with an outstanding request counted as taken
tile_unrevealed_unrequested(tile_index) ==
    /\ is_none(decrypted_tile_keys[tile_index + 1])
    /\ \A j \in 1..Len(events.requested) :
          events.requested[j].tile_index # tile_index
\* the condition of assert!(option::is_none(tile_option), ETileAlreadyRevealed)
tile_unrevealed(tile_index) == is_none(decrypted_tile_keys[tile_index + 1])

\* request_reveal checking the tile index before the payment
request_reveal_index_first(sender, tile_index, payment) ==
    IF ~not_solved THEN Abort(EGameAlreadySolved, 142, Game)
    ELSE IF ~tile_in_range(tile_index) THEN Abort(EInvalidTileIndex, 144, Game)
    ELSE IF ~payment_ok(payment) THEN Abort(EInvalidPayment, 143, Game)
    ELSE IF ~tile_unrevealed(tile_index)
    THEN Abort(ETileAlreadyRevealed, 148, Game)
    ELSE Success([Game EXCEPT
            !.pot = pot + payment,
            !.paid[sender] = paid[sender] + payment,
            !.events.requested = Append(events.requested,
                [tile_index |-> tile_index, requester |-> sender])])

request_reveal(sender, tile_index, payment) ==
    IF ~not_solved THEN Abort(EGameAlreadySolved, 142, Game)
    ELSE IF ~payment_ok(payment) THEN Abort(EInvalidPayment, 143, Game)
    ELSE IF ~tile_in_range(tile_index) THEN Abort(EInvalidTileIndex, 144, Game)
    ELSE IF ~(tile_index < Len(decrypted_tile_keys))
    THEN Abort(EINDEX_OUT_OF_BOUNDS, 147, Game)
    ELSE IF ~tile_unrevealed(tile_index)
    THEN Abort(ETileAlreadyRevealed, 148, Game)
    ELSE Success([Game EXCEPT
            !.pot = pot + payment,
            !.paid[sender] = paid[sender] + payment,
            !.events.requested = Append(events.requested,
                [tile_index |-> tile_index, requester |-> sender])])

\* fulfill_reveal refusing a solved game
fulfill_reveal_until_solved(tile_index, decrypted_key) ==
    IF is_solved THEN Abort(EGameAlreadySolved, 169, Game)
    ELSE IF ~(tile_index < Len(decrypted_tile_keys))
    THEN Abort(EINDEX_OUT_OF_BOUNDS, 172, Game)
    ELSE IF is_none(decrypted_tile_keys[tile_index + 1])
    THEN Success([Game EXCEPT
            !.decrypted_tile_keys[tile_index + 1] = Some(decrypted_key),
            !.events.revealed = Append(events.revealed,
                [tile_index |-> tile_index, decrypted_key |-> decrypted_key])])
    ELSE Success(Game)

\* fulfill_reveal publishing only the key of a tile somebody has requested
fulfill_reveal_requested_only(tile_index, decrypted_key) ==
    IF ~(tile_index < Len(decrypted_tile_keys))
    THEN Abort(EINDEX_OUT_OF_BOUNDS, 172, Game)
    ELSE IF /\ is_none(decrypted_tile_keys[tile_index + 1])
            /\ \E j \in 1..Len(events.requested) :
                  events.requested[j].tile_index = tile_index
    THEN Success([Game EXCEPT
            !.decrypted_tile_keys[tile_index + 1] = Some(decrypted_key),
            !.events.revealed = Append(events.revealed,
                [tile_index |-> tile_index, decrypted_key |-> decrypted_key])])
    ELSE Success(Game)

\* fulfill_reveal clearing the tile's ciphertext once its key is published
fulfill_reveal_consume(tile_index, decrypted_key) ==
    IF ~(tile_index < Len(decrypted_tile_keys))
    THEN Abort(EINDEX_OUT_OF_BOUNDS, 172, Game)
    ELSE IF is_none(decrypted_tile_keys[tile_index + 1])
    THEN Success([Game EXCEPT
            !.decrypted_tile_keys[tile_index + 1] = Some(decrypted_key),
            !.encrypted_tile_keys[tile_index + 1] = <<>>,
            !.events.revealed = Append(events.revealed,
                [tile_index |-> tile_index, decrypted_key |-> decrypted_key])])
    ELSE Success(Game)

fulfill_reveal(tile_index, decrypted_key) ==
    IF ~(tile_index < Len(decrypted_tile_keys))
    THEN Abort(EINDEX_OUT_OF_BOUNDS, 172, Game)
    ELSE IF is_none(decrypted_tile_keys[tile_index + 1])
    THEN Success([Game EXCEPT
            !.decrypted_tile_keys[tile_index + 1] = Some(decrypted_key),
            !.events.revealed = Append(events.revealed,
                [tile_index |-> tile_index, decrypted_key |-> decrypted_key])])
    ELSE Success(Game)

\* commit_guess keeping the caller's earlier commitment: first commit wins
commit_guess_keep_first(sender, submission_hash, timestamp_ms) ==
    IF ~not_solved THEN Abort(EGameAlreadySolved, 193, Game)
    ELSE IF table_contains(guess_commitments, sender) THEN Success(Game)
    ELSE Success([Game EXCEPT
            !.guess_commitments = table_add(guess_commitments, sender,
                [submission_hash |-> submission_hash,
                 timestamp_ms |-> timestamp_ms])])

commit_guess(sender, submission_hash, timestamp_ms) ==
    IF ~not_solved THEN Abort(EGameAlreadySolved, 193, Game)
    ELSE LET commitment == [submission_hash |-> submission_hash,
                            timestamp_ms |-> timestamp_ms]
             removed == IF table_contains(guess_commitments, sender)
                        THEN table_remove(guess_commitments, sender)
                        ELSE guess_commitments
         IN Success([Game EXCEPT
                !.guess_commitments = table_add(removed, sender, commitment)])

\* a fixed prize of one tile price instead of the balance
prize_amount_fixed == TILE_PRICE
\* balance::value(&game.pot), the amount solve takes out of the pot
prize_amount == pot

\* the digest of the answer alone, user_salt not appended
calculated_user_hash_nosalt(answer_input, user_salt) == keccak256(answer_input)
\* keccak256 of answer_input with user_salt appended
calculated_user_hash(answer_input, user_salt) ==
    LET user_combine == answer_input \o user_salt
    IN keccak256(user_combine)

\* the commented-out assert of line 227 in force:
\* clock::timestamp_ms(clock) > commitment.timestamp_ms
commitment_aged_enforced(timestamp_ms, commitment) ==
    timestamp_ms > commitment.timestamp_ms
\* line 227 is a comment: solve puts no condition on the clock
commitment_aged(timestamp_ms, commitment) == TRUE

\* game_salt appended to the answer before hashing
calculated_game_hash_salted(answer_input, game_salt) ==
    keccak256(answer_input \o game_salt)
\* keccak256(&answer_input): game_salt is a parameter of solve that is never read
calculated_game_hash(answer_input, game_salt) == keccak256(answer_input)

\* solve comparing the answer with answer_hash before the commitment
solve_answer_first(sender, answer_input, user_salt, game_salt, timestamp_ms) ==
    IF ~not_solved THEN Abort(EGameAlreadySolved, 218, Game)
    ELSE IF ~table_contains(guess_commitments, sender)
    THEN Abort(ENoCommitmentFound, 222, Game)
    ELSE IF calculated_game_hash(answer_input, game_salt) # answer_hash
    THEN Abort(EIncorrectAnswer, 249, Game)
    ELSE IF calculated_user_hash(answer_input, user_salt)
              # guess_commitments[sender][1].submission_hash
    THEN Abort(EIncorrectAnswer, 233, Game)
    ELSE Success([Game EXCEPT
            !.guess_commitments = table_remove(guess_commitments, sender),
            !.is_solved = TRUE,
            !.winner = Some(sender),
            !.pot = pot - prize_amount,
            !.received[sender] = received[sender] + prize_amount,
            !.events.solved = Append(events.solved,
                [winner |-> sender, prize |-> prize_amount])])

\* solve letting a caller without a commitment through to the answer check
solve_uncommitted(sender, answer_input, user_salt, game_salt, timestamp_ms) ==
    IF ~not_solved THEN Abort(EGameAlreadySolved, 218, Game)
    ELSE IF /\ table_contains(guess_commitments, sender)
            /\ calculated_user_hash(answer_input, user_salt)
                 # guess_commitments[sender][1].submission_hash
    THEN Abort(EIncorrectAnswer, 233, Game)
    ELSE IF calculated_game_hash(answer_input, game_salt) # answer_hash
    THEN Abort(EIncorrectAnswer, 249, Game)
    ELSE Success([Game EXCEPT
            !.guess_commitments = table_remove(guess_commitments, sender),
            !.is_solved = TRUE,
            !.winner = Some(sender),
            !.pot = pot - prize_amount,
            !.received[sender] = received[sender] + prize_amount,
            !.events.solved = Append(events.solved,
                [winner |-> sender, prize |-> prize_amount])])

solve(sender, answer_input, user_salt, game_salt, timestamp_ms) ==
    IF ~not_solved THEN Abort(EGameAlreadySolved, 218, Game)
    ELSE IF ~table_contains(guess_commitments, sender)
    THEN Abort(ENoCommitmentFound, 222, Game)
    ELSE LET commitment == guess_commitments[sender][1]
             removed == [Game EXCEPT
                 !.guess_commitments = table_remove(guess_commitments, sender)]
         IN IF ~commitment_aged(timestamp_ms, commitment)
            THEN Abort(ECommitmentTooFresh, 227, removed)
            ELSE IF calculated_user_hash(answer_input, user_salt)
                  # commitment.submission_hash
            THEN Abort(EIncorrectAnswer, 233, removed)
            ELSE IF calculated_game_hash(answer_input, game_salt) # answer_hash
            THEN Abort(EIncorrectAnswer, 249, removed)
            ELSE Success([removed EXCEPT
                    !.is_solved = TRUE,
                    !.winner = Some(sender),
                    !.pot = pot - prize_amount,
                    !.received[sender] = received[sender] + prize_amount,
                    !.events.solved = Append(events.solved,
                        [winner |-> sender, prize |-> prize_amount])])

\* ------------------------------------------------------------ transactions
\* one transaction calling one entry function: run it, commit or roll back
Transaction(op, sender, args, r) ==
    /\ Execute(Commit(r))
    /\ last' = Outcome(op, sender, args, r)

CreateGame(sender, answer_hash_in, n_keys, n_ids, valid) ==
    /\ ~created
    /\ Transaction("create_game", sender,
           [answer_hash |-> answer_hash_in, n_keys |-> n_keys, n_ids |-> n_ids,
            valid |-> valid],
           create_game(sender, answer_hash_in, <<1>>, EncryptedKeys(n_keys),
                       IdBytes(n_ids, valid)))
    /\ UNCHANGED <<cap_owner, clock, envVars>>

RequestReveal(sender, tile_index, payment) ==
    /\ created
    /\ Len(events.requested) < MaxRequests
    /\ Transaction("request_reveal", sender,
           [tile_index |-> tile_index, payment |-> payment],
           request_reveal(sender, tile_index, payment))
    /\ UNCHANGED <<cap_owner, clock, envVars>>

\* fulfill_reveal callable without owning the OracleCap
FulfillReveal_nocap(sender, tile_index, decrypted_key) ==
    /\ created
    /\ Transaction("fulfill_reveal", sender,
           [tile_index |-> tile_index, decrypted_key |-> decrypted_key],
           fulfill_reveal(tile_index, decrypted_key))
    /\ UNCHANGED <<cap_owner, clock, envVars>>

\* where the OracleCap is when no address owns it: frozen by
\* public_freeze_object (an immutable object), or wrapped in another object
Immutable == "Immutable"
Wrapped == "Wrapped"

\* a transaction of sender can take the OracleCap as an input object named
\* by its id: sender owns it, or it is frozen and every address can name it;
\* a wrapped object is no transaction input
can_name_cap(sender) ==
    \/ cap_owner = sender
    \/ cap_owner = Immutable

\* a transaction of sender can pass the OracleCap to the public function
\* fulfill_reveal by immutable reference: as an input object; or, when it is
\* wrapped, through the wrapping package, which borrows it from its object
\* for the senders that package lets through, which can be any address
can_present_cap(sender) ==
    \/ can_name_cap(sender)
    \/ cap_owner = Wrapped

\* the sender passes the OracleCap by reference
FulfillReveal(sender, tile_index, decrypted_key) ==
    /\ created
    /\ can_present_cap(sender)
    /\ Transaction("fulfill_reveal", sender,
           [tile_index |-> tile_index, decrypted_key |-> decrypted_key],
           fulfill_reveal(tile_index, decrypted_key))
    /\ UNCHANGED <<cap_owner, clock, envVars>>

CommitGuess(sender, submission_hash) ==
    /\ created
    /\ Transaction("commit_guess", sender,
           [submission_hash |-> submission_hash],
           commit_guess(sender, submission_hash, clock))
    /\ UNCHANGED <<cap_owner, clock, envVars>>

Solve(sender, answer_input, user_salt, game_salt) ==
    /\ created
    /\ Transaction("solve", sender,
           [answer_input |-> answer_input, user_salt |-> user_salt,
            game_salt |-> game_salt],
           solve(sender, answer_input, user_salt, game_salt, clock))
    /\ UNCHANGED <<cap_owner, clock, envVars>>

\* The network between the callers and the shared object.  handleCommit and
\* handleSolve return when the transaction is handed to the wallet; it is
\* ordered later, other transactions in between, and until then its
\* arguments can be read by anyone.  commit_guess carries a digest only,
\* solve carries the answer and the salt in clear.
Known(p) == knows[p].own \cup knows[p].seen

PendingCommit(sender, submission_hash) ==
    [op |-> "commit_guess", sender |-> sender,
     submission_hash |-> submission_hash, answer_input |-> <<>>,
     user_salt |-> <<>>]
PendingSolve(sender, answer_input, user_salt) ==
    [op |-> "solve", sender |-> sender, submission_hash |-> <<>>,
     answer_input |-> answer_input, user_salt |-> user_salt]

\* a commit_guess is submitted.  The contract takes any bytes from any
\* sender: the digest handleCommit computed from what the player typed, or
\* bytes copied from the commitment of another player.
SubmitCommit(sender, submission_hash) ==
    /\ created
    /\ Cardinality(mempool) < MaxPending
    /\ mempool' = mempool \cup {PendingCommit(sender, submission_hash)}
    /\ UNCHANGED <<gameVars, cap_owner, clock, last, knows, bot>>

\* a pending commit_guess is ordered and executes
OrderCommit ==
    /\ created
    /\ \E tx \in mempool :
          /\ tx.op = "commit_guess"
          /\ Transaction("commit_guess", tx.sender,
                 [submission_hash |-> tx.submission_hash],
                 commit_guess(tx.sender, tx.submission_hash, clock))
          /\ mempool' = mempool \ {tx}
    /\ UNCHANGED <<cap_owner, clock, knows, bot>>

\* a solve is submitted: its answer is one the sender has worked out or read
SubmitSolve(sender, answer_input, user_salt) ==
    /\ created
    /\ answer_input \in Known(sender)
    /\ Cardinality(mempool) < MaxPending
    /\ mempool' = mempool \cup {PendingSolve(sender, answer_input, user_salt)}
    /\ UNCHANGED <<gameVars, cap_owner, clock, last, knows, bot>>

\* an address reads the answer in the pending solve of another
Observe(observer) ==
    /\ \E tx \in mempool :
          /\ tx.op = "solve"
          /\ tx.sender # observer
          /\ tx.answer_input \notin Known(observer)
          /\ knows' = [knows EXCEPT ![observer].seen = @ \cup {tx.answer_input}]
    /\ UNCHANGED <<gameVars, cap_owner, clock, last, mempool, bot>>

\* a pending solve is ordered and executes
OrderSolve ==
    /\ created
    /\ \E tx \in mempool :
          /\ tx.op = "solve"
          /\ Transaction("solve", tx.sender,
                 [answer_input |-> tx.answer_input, user_salt |-> tx.user_salt,
                  game_salt |-> <<>>],
                 solve(tx.sender, tx.answer_input, tx.user_salt, <<>>, clock))
          /\ mempool' = mempool \ {tx}
    /\ UNCHANGED <<cap_owner, clock, knows, bot>>

\* a transaction on the OracleCap alone: the cap goes to where
CapTransaction(op, sender, where) ==
    /\ cap_owner' = where
    /\ last' = [op |-> op, sender |-> sender, args |-> [recipient |-> where],
                status |-> "success", code |-> 0, line |-> 0]
    /\ UNCHANGED <<gameVars, clock, envVars>>

\* OracleCap has key and store: its owner can transfer it to any address
\* (transfer::public_transfer)
TransferCap(sender, recipient) ==
    /\ sender = cap_owner
    /\ recipient # sender
    /\ CapTransaction("transfer_cap", sender, recipient)

\* its owner can freeze it (transfer::public_freeze_object): from then on
\* it is immutable, has no owner and stays so
FreezeCap(sender) ==
    /\ sender = cap_owner
    /\ CapTransaction("freeze_cap", sender, Immutable)

\* its owner can hand it by value to a function of another package that
\* stores it inside another object: no transaction can name it as an input
\* any more, the wrapping package alone reaches it
WrapCap(sender) ==
    /\ sender = cap_owner
    /\ CapTransaction("wrap_cap", sender, Wrapped)

\* the package that wrapped it takes it out again and transfers it
UnwrapCap(sender, recipient) ==
    /\ cap_owner = Wrapped
    /\ CapTransaction("unwrap_cap", sender, recipient)

\* the Clock object advances between transactions
Tick ==
    /\ clock < MaxClock
    /\ clock' = clock + 1
    /\ UNCHANGED <<gameVars, cap_owner, last, envVars>>

\* --------------------------------------------------------------- oracle bot
\* The bot polls the TileRevealRequested events and answers each with a
\* fulfill_reveal transaction.  Every await of the source is one step: the
\* chain can move between two steps.  An awaited call either returns or
\* throws; MaxFaults bounds the throws of one run.

\* the account whose key signs the bot's transactions: the deployer
BOT == ADMIN
\* limit of one queryEvents page
limit == 50

Min(a, b) == IF a < b THEN a ELSE b

\* client.queryEvents, ascending from the cursor (exclusive): the sequence
\* numbers of the next events, at most limit of them; cursor 0 is null
queryEvents(cursor) ==
    [n \in 1..Min(limit, Len(events.requested) - cursor) |-> cursor + n]

\* events.nextCursor left where it was
nextCursor_unmoved(b) == b.cursor
\* events.nextCursor of a page that is not empty: its last event
nextCursor(b) == b.page[Len(b.page)]

\* the event handleRevealRequest is working on and its tile
CurrentEvent == bot.page[bot.idx]
CurrentTile == events.requested[CurrentEvent].tile_index

\* sealClient.recover: the AES key inside the ciphertext (the ciphertext of
\* tile i is <<i + 1, i + 1>>: one byte of envelope, then the key)
recover(ciphertext) == SubSeq(ciphertext, 2, Len(ciphertext))

\* Buffer.toString('hex') followed by TextEncoder.encode: two ASCII
\* characters 0-9 a-f for every byte
HexDigit(d) == IF d < 10 THEN 48 + d ELSE 87 + d
aesKeyHex(bytes) ==
    [k \in 1..(2 * Len(bytes)) |->
        IF k % 2 = 1 THEN HexDigit(bytes[(k + 1) \div 2] \div 16)
        ELSE HexDigit(bytes[k \div 2] % 16)]

\* the key the bot puts in its transaction for a tile
decryptedKey(tile_index) ==
    aesKeyHex(recover(encrypted_tile_keys[tile_index + 1]))

BotInit == [pc |-> "queryEvents", cursor |-> 0, page |-> <<>>, idx |-> 0,
            log |-> <<>>, faults |-> 0]

\* handleRevealRequest returns: the for loop goes to the next event of the
\* page, or, after the last one, the cursor moves and the loop polls again
Returned(b, outcome) ==
    LET logged == [b EXCEPT !.log = Append(@, [event |-> b.page[b.idx],
                                                outcome |-> outcome])]
    IN IF b.idx < Len(b.page)
       THEN [logged EXCEPT !.idx = @ + 1, !.pc = "getObject"]
       ELSE [logged EXCEPT !.cursor = nextCursor(b), !.page = <<>>,
                           !.idx = 0, !.pc = "queryEvents"]

\* one more awaited call has thrown
Thrown(b) == [b EXCEPT !.faults = @ + 1]

\* startListener: poll; an empty page or an error leaves the cursor
QueryEvents(ok) ==
    /\ bot.pc = "queryEvents"
    /\ IF ok
       THEN bot' = IF queryEvents(bot.cursor) = <<>> THEN bot
                   ELSE [bot EXCEPT !.page = queryEvents(bot.cursor),
                                    !.idx = 1, !.pc = "getObject"]
       ELSE /\ bot.faults < MaxFaults
            /\ bot' = Thrown(bot)
    /\ UNCHANGED <<gameVars, cap_owner, clock, last, mempool, knows>>

\* The JSON that client.getObject gives for one Option<vector<u8>> of the
\* game's fields.  The node decides the rendering: the value itself (null
\* for None, the array of bytes for Some), or the Move struct
\* {type, fields: {vec: [...]}} with vec empty for None.
Renderings == {"value", "struct"}
toJSON(option, rendering) ==
    IF rendering = "struct"
    THEN [kind |-> "object", fields |-> [vec |-> option]]
    ELSE IF is_none(option) THEN [kind |-> "null"]
    ELSE [kind |-> "array", items |-> option[1]]

\* decryptedKeys[Number(tile_index)] of the game the bot has read
tileData(rendering) == toJSON(decrypted_tile_keys[CurrentTile + 1], rendering)

\* tileData && tileData.fields && tileData.fields.vec &&
\* tileData.fields.vec.length > 0: null is falsy, an array has no fields
isAlreadyRevealed(t) == t.kind = "object" /\ Len(t.fields.vec) > 0

\* handleRevealRequest: read the game, stop if the tile data passes the
\* test of the state check
GetObject(ok, rendering) ==
    /\ bot.pc = "getObject"
    /\ IF ok
       THEN bot' = IF isAlreadyRevealed(tileData(rendering))
                   THEN Returned(bot, "skipped")
                   ELSE [bot EXCEPT !.pc = "recover"]
       ELSE /\ bot.faults < MaxFaults
            /\ bot' = Returned(Thrown(bot), "error")
    /\ UNCHANGED <<gameVars, cap_owner, clock, last, mempool, knows>>

\* handleRevealRequest: recover the AES key; a failure ends the handling
Recover(ok) ==
    /\ bot.pc = "recover"
    /\ IF ok
       THEN bot' = [bot EXCEPT !.pc = "signAndExecute"]
       ELSE /\ bot.faults < MaxFaults
            /\ bot' = Returned(Thrown(bot), "decrypt_failed")
    /\ UNCHANGED <<gameVars, cap_owner, clock, last, mempool, knows>>

\* handleRevealRequest: send fulfill_reveal with the cap as the input
\* object tx.object(ORACLE_CAP_ID); a transaction whose input the signer
\* cannot name is refused and the chain stays as it is; whatever the
\* result, the handling of the event ends
SignAndExecute(ok) ==
    /\ bot.pc = "signAndExecute"
    /\ IF ok /\ can_name_cap(BOT)
       THEN /\ Transaction("fulfill_reveal", BOT,
                   [tile_index |-> CurrentTile,
                    decrypted_key |-> decryptedKey(CurrentTile)],
                   fulfill_reveal(CurrentTile, decryptedKey(CurrentTile)))
            /\ bot' = Returned(bot, "executed")
       ELSE /\ ok \/ bot.faults < MaxFaults
            /\ bot' = Returned(IF ok THEN bot ELSE Thrown(bot), "tx_failed")
            /\ UNCHANGED <<gameVars, last>>
    /\ UNCHANGED <<cap_owner, clock, mempool, knows>>

\* one step of the bot
BotStep ==
    \E ok \in BOOLEAN :
       \/ QueryEvents(ok)
       \/ \E rendering \in Renderings : GetObject(ok, rendering)
       \/ Recover(ok)
       \/ SignAndExecute(ok)

\* ------------------------------------------------------------ specification
\* after publishing the package: init has sent the OracleCap to the deployer,
\* no Game has been created yet
InitGame ==
    /\ created = FALSE
    /\ creator = ADMIN
    /\ answer_hash = <<>>
    /\ walrus_blob_id = <<>>
    /\ encrypted_tile_keys = <<>>
    /\ encryption_ids = <<>>
    /\ decrypted_tile_keys = <<>>
    /\ pot = 0
    /\ is_solved = FALSE
    /\ winner = None
    /\ guess_commitments = [a \in Addresses |-> None]
    /\ cap_owner = ADMIN
    /\ clock = 0
    /\ paid = [a \in Addresses |-> 0]
    /\ received = [a \in Addresses |-> 0]
    /\ events = NoEvents
    /\ last = [op |-> "init", sender |-> ADMIN, args |-> <<>>,
               status |-> "success", code |-> 0, line |-> 0]

Init ==
    /\ InitGame
    /\ bot = BotInit
    /\ mempool = {}
    /\ knows = [a \in Addresses |-> [own |-> AnswerInputs, seen |-> {}]]

\* one transaction, the inputs drawn from the given sets
Step(Requesters, Tiles, Payments, Keys, Guessers, Digests, Answers, Salts) ==
    \/ \E nk \in LengthInputs, ni \in LengthInputs, v \in BOOLEAN :
          CreateGame(ADMIN, AnswerHashInput, nk, ni, v)
    \/ \E p \in Requesters, t \in Tiles, c \in Payments : RequestReveal(p, t, c)
    \/ \E a \in Addresses, t \in Tiles, k \in Keys : FulfillReveal(a, t, k)
    \/ \E p \in Guessers, d \in Digests : CommitGuess(p, d)
    \/ \E p \in Guessers, a \in Answers, s \in Salts, g \in GameSaltInputs :
          Solve(p, a, s, g)

\* the answer protocol in full (two guessers, every digest, the clock), the
\* ledger on one tile
Next ==
    \/ Step(Players, {0, TOTAL_TILES}, PaymentInputs, {<<1>>}, Players,
            DigestInputs, AnswerInputs, SaltInputs)
    \/ Tick

Spec == Init /\ [][Next]_vars

\* the tile ledger in full (two tiles, two keys, two requesters, the
\* OracleCap with the deployer until it is frozen and every address can
\* publish), one guesser with one commitment
NextLedger ==
    \/ Step(Players, TileInputs, PaymentInputs, KeyInputs, {PLAYER_B},
            {keccak256(<<1, 2>>)}, {<<1>>}, {<<2>>})
    \/ \E a \in Addresses : FreezeCap(a)

SpecLedger == Init /\ [][NextLedger]_vars

\* the OracleCap in full (transferred, frozen, wrapped and unwrapped), one
\* requester paying the price for tile 0, two keys, one guesser
NextCap ==
    \/ Step({PLAYER_A}, {0}, {TILE_PRICE}, KeyInputs, {PLAYER_B},
            {keccak256(<<1, 2>>)}, {<<1>>}, {<<2>>})
    \/ \E a \in Addresses, b \in Addresses : TransferCap(a, b)
    \/ \E a \in Addresses : FreezeCap(a)
    \/ \E a \in Addresses : WrapCap(a)
    \/ \E a \in Addresses, b \in Addresses : UnwrapCap(a, b)

SpecCap == Init /\ [][NextCap]_vars

\* the answer protocol with the network in between: PLAYER_A has worked out
\* the answer <<1>>, PLAYER_B has only the wrong guess <<1, 2>>; commit_guess
\* and solve transactions wait in the mempool, and a player solves only with
\* answers it knows
InitMempool ==
    /\ InitGame
    /\ bot = BotInit
    /\ mempool = {}
    /\ knows = [a \in Addresses |->
                  [own |-> IF a = PLAYER_A THEN {<<1>>}
                           ELSE IF a = PLAYER_B THEN {<<1, 2>>} ELSE {},
                   seen |-> {}]]

\* salts under which no two (answer, salt) pairs concatenate to the same
\* bytes
MempoolSalts == {<<>>, <<3>>}
\* the digests of the answers under these salts
MempoolDigests ==
    {keccak256(a \o s) : a \in AnswerInputs, s \in MempoolSalts}

NextMempool ==
    \/ CreateGame(ADMIN, AnswerHashInput, TOTAL_TILES, TOTAL_TILES, TRUE)
    \/ RequestReveal(PLAYER_A, 0, TILE_PRICE)
    \/ \E p \in Players, d \in MempoolDigests : SubmitCommit(p, d)
    \/ OrderCommit
    \/ \E p \in Players, a \in AnswerInputs, s \in MempoolSalts :
          SubmitSolve(p, a, s)
    \/ \E p \in Players : Observe(p)
    \/ OrderSolve

SpecMempool == InitMempool /\ [][NextMempool]_vars

\* the bot at work: PLAYER_A pays for tiles 0 and 99, the bot answers, and
\* the cap owner may publish a key by hand in between (a second operator)
NextBot ==
    \/ CreateGame(ADMIN, AnswerHashInput, TOTAL_TILES, TOTAL_TILES, TRUE)
    \/ \E t \in {0, TOTAL_TILES - 1} : RequestReveal(PLAYER_A, t, TILE_PRICE)
    \/ \E t \in {0, TOTAL_TILES - 1} : FulfillReveal(ADMIN, t, <<1>>)
    \/ QueryEvents(TRUE) \/ QueryEvents(FALSE)
    \/ \E rendering \in Renderings : GetObject(TRUE, rendering)
    \/ GetObject(FALSE, "value")
    \/ Recover(TRUE) \/ Recover(FALSE)
    \/ SignAndExecute(TRUE) \/ SignAndExecute(FALSE)

SpecBot == Init /\ [][NextBot]_vars

\* the bot keeps running and is scheduled fairly
SpecBotLive == Init /\ [][NextBot]_vars /\ WF_vars(BotStep)

\* ------------------------------------------------------------------ claims
RECURSIVE SumOver(_, _)
SumOver(f, S) == IF S = {} THEN 0
                 ELSE LET x == CHOOSE y \in S : TRUE
                      IN f[x] + SumOver(f, S \ {x})

\* this step is the transaction in which solve succeeds
SolveSucceeds == ~is_solved /\ is_solved'
\* this step is a transaction other than a repeat of the previous one
NewCall(op) == last'.op = op /\ last' # last

\* C1: in every reachable state, is_solved implies that winner is set and
\* the pot is empty.
C1_SolvedImpliesWinnerAndEmptyPot ==
    is_solved => is_some(winner) /\ pot = 0

\* a solved game whose winner was paid a non-empty pot, after a later call
C1_Witness ==
    /\ is_solved
    /\ is_some(winner)
    /\ received[winner[1]] > 0
    /\ last.op = "fulfill_reveal"

\* C2: solve by P succeeds only if P's stored commitment is the digest of
\* the answer and salt passed to solve, and a stored commitment of P is
\* always the digest of P's own latest accepted commit_guess.
C2_SolveNeedsOwnMatchingCommitment ==
    [][/\ SolveSucceeds =>
            /\ last'.op = "solve"
            /\ last'.status = "success"
            /\ table_contains(guess_commitments, last'.sender)
            /\ guess_commitments[last'.sender][1].submission_hash
                 = keccak256(last'.args.answer_input \o last'.args.user_salt)
       /\ \A p \in Addresses :
            (guess_commitments'[p] # guess_commitments[p]
               /\ is_some(guess_commitments'[p])) =>
                /\ last'.op = "commit_guess"
                /\ last'.status = "success"
                /\ last'.sender = p
                /\ guess_commitments'[p][1].submission_hash
                     = last'.args.submission_hash]_vars

\* a player has won with a salted commitment (answer <<1>>, salt <<2>>),
\* while the other player holds a commitment too
C2_Witness ==
    /\ is_solved
    /\ last.op = "solve"
    /\ last.status = "success"
    /\ last.args.user_salt = <<2>>
    /\ \E q \in Players \ {last.sender} : table_contains(guess_commitments, q)

\* the answer the game was created with
IsCorrect(answer) == keccak256(answer) = answer_hash

\* C3: front-running resistance.  A player who did not work the answer out
\* and read it in another player's pending solve is never the winner while
\* that solve, valid when it was submitted, still waits to be ordered.
C3_FrontRunningResistance ==
    \A q \in Players : \A tx \in mempool :
        ~(/\ tx.op = "solve"
          /\ winner = Some(q)
          /\ \A a \in knows[q].own : ~IsCorrect(a)
          /\ tx.sender # q
          /\ IsCorrect(tx.answer_input)
          /\ tx.answer_input \in knows[q].seen
          /\ table_contains(guess_commitments, tx.sender)
          /\ guess_commitments[tx.sender][1].submission_hash
               = keccak256(tx.answer_input \o tx.user_salt))


\* C4: from the successful solve on the pot is 0, and every later solve
\* call, by any caller and with any arguments, aborts with
\* EGameAlreadySolved.
C4_AfterSolveEmptyPotAndAlreadySolved ==
    /\ [](is_solved =>
            /\ pot = 0
            /\ \A p \in Addresses, a \in AnswerInputs, s \in SaltInputs,
                  g \in GameSaltInputs :
                  /\ solve(p, a, s, g, clock).status = "abort"
                  /\ solve(p, a, s, g, clock).code = EGameAlreadySolved)
    /\ [][(is_solved /\ NewCall("solve")) =>
            /\ last'.status = "abort"
            /\ last'.code = EGameAlreadySolved
            /\ pot' = 0]_vars

\* a second solve, by a player holding a live commitment to the right
\* answer, was rejected after the pot had been paid out
C4_Witness ==
    /\ is_solved
    /\ received[winner[1]] > 0
    /\ last.op = "solve"
    /\ last.status = "abort"
    /\ last.sender # winner[1]
    /\ table_contains(guess_commitments, last.sender)
    /\ guess_commitments[last.sender][1].submission_hash
         = keccak256(last.args.answer_input \o last.args.user_salt)
    /\ keccak256(last.args.answer_input) = answer_hash

\* C5: is_solved goes false -> true at most once and never back, winner is
\* set at most once and never changes, and at most one GameSolved event is
\* emitted.
C5_AtMostOneWinner ==
    [][/\ is_solved => is_solved'
       /\ is_some(winner) => winner' = winner
       /\ is_solved' <=> is_some(winner')
       /\ Len(events'.solved) <= 1
       /\ Len(events'.solved) = 1 <=> is_solved'
       /\ is_solved' => events'.solved[1].winner = winner'[1]]_vars

\* the game is solved and the other player, holding a commitment to the
\* right answer, has tried to solve as well
C5_Witness ==
    /\ is_solved
    /\ Len(events.solved) = 1
    /\ last.op = "solve"
    /\ last.sender # winner[1]
    /\ table_contains(guess_commitments, last.sender)
    /\ guess_commitments[last.sender][1].submission_hash = keccak256(<<1>>)
    /\ last.args.answer_input = <<1>>
    /\ last.args.user_salt = <<>>

\* C6: a successful solve transfers to the caller exactly the pot as it
\* was before the call, which is the sum of the payments request_reveal
\* accepted; the GameSolved event carries that amount and the caller.
C6_PayoutIsWholePot ==
    [][SolveSucceeds =>
         LET p == last'.sender IN
            /\ received'[p] - received[p] = pot
            /\ \A q \in Addresses \ {p} : received'[q] = received[q]
            /\ pot = SumOver(paid, Addresses)
            /\ pot = TILE_PRICE * Len(events.requested)
            /\ pot' = 0
            /\ paid' = paid
            /\ winner' = Some(p)
            /\ events'.solved
                 = Append(events.solved, [winner |-> p, prize |-> pot])]_vars

\* the winner has just been paid a pot made of two payments
C6_Witness ==
    /\ is_solved
    /\ last.op = "solve"
    /\ last.status = "success"
    /\ received[last.sender] = 2 * TILE_PRICE
    /\ events.solved = <<[winner |-> last.sender, prize |-> 2 * TILE_PRICE]>>

\* C7: a tile key that is Some(k) stays Some(k) under every later call.
C7_RevealedKeyNeverChanges ==
    [][created =>
         \A i \in 1..TOTAL_TILES :
            is_some(decrypted_tile_keys[i]) =>
                decrypted_tile_keys'[i] = decrypted_tile_keys[i]]_vars

\* fulfill_reveal was called with another key on a tile already revealed
C7_Witness ==
    /\ created
    /\ last.op = "fulfill_reveal"
    /\ last.status = "success"
    /\ last.args.tile_index < TOTAL_TILES
    /\ is_some(decrypted_tile_keys[last.args.tile_index + 1])
    /\ decrypted_tile_keys[last.args.tile_index + 1][1] # last.args.decrypted_key
    /\ is_solved

\* the outcome of the caller of the last transaction repeating it as is
RepeatLastSolve ==
    solve(last.sender, last.args.answer_input, last.args.user_salt,
          last.args.game_salt, clock)

\* C8 as stated: after a solve attempt by a caller, successful or rejected
\* on the self-consistency check, the same solve repeated by that caller
\* with no new commit_guess aborts with ENoCommitmentFound.
C8_RepeatFailsNoCommitmentFound ==
    (last.op = "solve" /\ (last.status = "success" \/ last.line = 233)) =>
        /\ RepeatLastSolve.status = "abort"
        /\ RepeatLastSolve.code = ENoCommitmentFound

\* C8 amended: after a successful solve the same solve repeated aborts
\* with EGameAlreadySolved; after a solve rejected on the self-consistency
\* check the commitment is still stored and the same solve repeated aborts
\* again with EIncorrectAnswer on that check.
C8_RepeatFailsTheSameWay ==
    /\ (last.op = "solve" /\ last.status = "success") =>
          /\ RepeatLastSolve.status = "abort"
          /\ RepeatLastSolve.code = EGameAlreadySolved
          /\ ~table_contains(guess_commitments, last.sender)
    /\ (last.op = "solve" /\ last.line = 233) =>
          /\ table_contains(guess_commitments, last.sender)
          /\ RepeatLastSolve.status = "abort"
          /\ RepeatLastSolve.code = EIncorrectAnswer
          /\ RepeatLastSolve.line = 233

\* a solve has just been rejected on the self-consistency check
C8_Witness ==
    /\ last.op = "solve"
    /\ last.status = "abort"
    /\ last.code = EIncorrectAnswer
    /\ last.line = 233
    /\ RepeatLastSolve.line = 233
    /\ pot > 0

\* C9: a solve rejected on the self-consistency check consumes nothing: no
\* field of the game changes, the caller's commitment is still stored, and
\* a solve by the caller with the committed answer and salt passes that
\* check with no new commit_guess.
C9_MismatchConsumesNothing ==
    [][(NewCall("solve") /\ last'.line = 233) =>
         /\ last'.status = "abort"
         /\ last'.code = EIncorrectAnswer
         /\ UNCHANGED gameVars
         /\ table_contains(guess_commitments', last'.sender)
         /\ \E a \in AnswerInputs, s \in SaltInputs :
               /\ keccak256(a \o s)
                    = guess_commitments[last'.sender][1].submission_hash
               /\ solve(last'.sender, a, s, <<>>, clock).line \notin {222, 233}]_vars

\* a caller committed to the right answer, was rejected on the
\* self-consistency check for revealing another one, and still holds the
\* commitment that wins
C9_Witness ==
    /\ last.op = "solve"
    /\ last.line = 233
    /\ ~is_solved
    /\ table_contains(guess_commitments, last.sender)
    /\ guess_commitments[last.sender][1].submission_hash = keccak256(<<1, 2>>)
    /\ solve(last.sender, <<1>>, <<2>>, <<>>, clock).status = "success"

\* C10 as stated: after a solve that passes the self-consistency check and
\* fails the correctness check, the caller's commitment has been removed.
C10_WrongAnswerConsumesCommitment ==
    (last.op = "solve" /\ last.line = 249) =>
        ~table_contains(guess_commitments, last.sender)

\* C10 amended: a solve that passes the self-consistency check and fails
\* the correctness check is rejected with EIncorrectAnswer and changes
\* nothing: the caller's commitment is still stored afterwards.
C10_WrongAnswerKeepsCommitment ==
    [][(NewCall("solve") /\ last'.line = 249) =>
         /\ last'.status = "abort"
         /\ last'.code = EIncorrectAnswer
         /\ UNCHANGED gameVars
         /\ table_contains(guess_commitments', last'.sender)
         /\ guess_commitments'[last'.sender][1].submission_hash
              = keccak256(last'.args.answer_input \o last'.args.user_salt)
         /\ keccak256(last'.args.answer_input) # answer_hash']_vars

\* a solve has just been rejected on the correctness check
C10_Witness ==
    /\ last.op = "solve"
    /\ last.status = "abort"
    /\ last.line = 249
    /\ table_contains(guess_commitments, last.sender)
    /\ last.args.answer_input = <<1, 2>>

\* the entry functions a caller can be rejected by
EntryOps == {"request_reveal", "fulfill_reveal", "commit_guess", "solve"}

\* C11: a rejected call of request_reveal, commit_guess, solve or
\* fulfill_reveal changes nothing: pot, tile keys, is_solved, winner,
\* commitments, balances and event logs are as before the call.
C11_RejectedCallChangesNothing ==
    [][(last' # last /\ last'.op \in EntryOps /\ last'.status = "abort") =>
         /\ UNCHANGED gameVars
         /\ UNCHANGED cap_owner]_vars

\* a solve was rejected after it had removed the caller's commitment, on a
\* game holding a payment and a revealed tile
C11_Witness ==
    /\ last.op = "solve"
    /\ last.status = "abort"
    /\ last.line \in {233, 249}
    /\ pot > 0
    /\ is_some(decrypted_tile_keys[1])
    /\ table_contains(guess_commitments, last.sender)

\* C12: on an unsolved game, a solve by a caller whose stored digest is
\* keccak256(answer || user_salt), with keccak256(answer) = answer_hash,
\* succeeds for every game_salt and clock reading: the game is solved, the
\* caller is winner and receives the whole pot, the pot is 0.
C12_MatchingCorrectSolveSucceeds ==
    /\ [](created /\ ~is_solved =>
            \A p \in Addresses, a \in AnswerInputs, s \in SaltInputs :
               (/\ table_contains(guess_commitments, p)
                /\ guess_commitments[p][1].submission_hash = keccak256(a \o s)
                /\ IsCorrect(a)) =>
                   \A g \in GameSaltInputs, now \in 0..MaxClock :
                      LET r == solve(p, a, s, g, now) IN
                         /\ r.status = "success"
                         /\ r.writes.is_solved
                         /\ r.writes.winner = Some(p)
                         /\ r.writes.pot = 0
                         /\ r.writes.received[p] = received[p] + pot)
    /\ [][(/\ NewCall("solve")
           /\ ~is_solved
           /\ table_contains(guess_commitments, last'.sender)
           /\ guess_commitments[last'.sender][1].submission_hash
                = keccak256(last'.args.answer_input \o last'.args.user_salt)
           /\ IsCorrect(last'.args.answer_input)) =>
              /\ last'.status = "success"
              /\ is_solved'
              /\ winner' = Some(last'.sender)
              /\ received'[last'.sender] = received[last'.sender] + pot
              /\ pot' = 0]_vars

\* a player who committed at the current clock reading has won one payment
C12_Witness ==
    /\ is_solved
    /\ last.op = "solve"
    /\ last.status = "success"
    /\ winner = Some(last.sender)
    /\ pot = 0
    /\ received[last.sender] = TILE_PRICE
    /\ clock = 0

\* C13: request_reveal with a payment other than TILE_PRICE is rejected
\* for every tile index, caller and game state, and the pot is unchanged.
C13_WrongPaymentRejected ==
    /\ [](created =>
            \A p \in Addresses, i \in TileInputs,
               c \in PaymentInputs \ {TILE_PRICE} :
                  /\ request_reveal(p, i, c).status = "abort"
                  /\ request_reveal(p, i, c).code
                       \in {EGameAlreadySolved, EInvalidPayment})
    /\ [][(last'.op = "request_reveal"
             /\ last'.args.payment # TILE_PRICE) =>
              /\ last'.status = "abort"
              /\ pot' = pot
              /\ paid' = paid
              /\ events' = events]_vars

\* an overpaying request for a tile that is already revealed was rejected
C13_Witness ==
    /\ last.op = "request_reveal"
    /\ last.status = "abort"
    /\ last.args.payment > TILE_PRICE
    /\ last.args.tile_index < TOTAL_TILES
    /\ is_some(decrypted_tile_keys[last.args.tile_index + 1])
    /\ pot > 0

\* C14 as stated: request_reveal with a tile index outside [0, TOTAL_TILES)
\* aborts with EInvalidTileIndex whatever the payment and whether or not
\* the game is solved.
C14_OutOfRangeAlwaysInvalidTileIndex ==
    (last.op = "request_reveal" /\ last.args.tile_index >= TOTAL_TILES) =>
        /\ last.status = "abort"
        /\ last.code = EInvalidTileIndex

\* what request_reveal answers to an out-of-range index in this state
OutOfRangeCode(payment) ==
    IF is_solved THEN EGameAlreadySolved
    ELSE IF payment # TILE_PRICE THEN EInvalidPayment
    ELSE EInvalidTileIndex

\* C14 amended: request_reveal with a tile index outside [0, TOTAL_TILES)
\* is always rejected; the error is EInvalidTileIndex when the game is
\* unsolved and the payment is exactly TILE_PRICE, EGameAlreadySolved when
\* the game is solved, and EInvalidPayment when it is unsolved and the
\* payment is wrong.
C14_OutOfRangeRejectedByFirstFailedCheck ==
    /\ (last.op = "request_reveal" /\ last.args.tile_index >= TOTAL_TILES) =>
          /\ last.status = "abort"
          /\ last.code = OutOfRangeCode(last.args.payment)
    /\ created =>
          \A p \in Addresses, c \in PaymentInputs :
             /\ request_reveal(p, TOTAL_TILES, c).status = "abort"
             /\ request_reveal(p, TOTAL_TILES, c).code = OutOfRangeCode(c)

\* a request for tile 100 paying the exact price was rejected on the index
C14_Witness ==
    /\ last.op = "request_reveal"
    /\ last.args.tile_index = TOTAL_TILES
    /\ last.args.payment = TILE_PRICE
    /\ last.status = "abort"
    /\ last.code = EInvalidTileIndex
    /\ last.line = 144

\* C15: once the game is solved, every request_reveal, commit_guess and
\* solve aborts with EGameAlreadySolved whatever its arguments, and
\* fulfill_reveal is the only call that is still accepted and changes the
\* game.
C15_SolvedRejectsAllButFulfill ==
    /\ [](is_solved =>
            /\ \A p \in Addresses :
                 /\ \A i \in TileInputs, c \in PaymentInputs :
                       /\ request_reveal(p, i, c).status = "abort"
                       /\ request_reveal(p, i, c).code = EGameAlreadySolved
                 /\ \A d \in DigestInputs :
                       /\ commit_guess(p, d, clock).status = "abort"
                       /\ commit_guess(p, d, clock).code = EGameAlreadySolved
                 /\ \A a \in AnswerInputs, s \in SaltInputs, g \in GameSaltInputs :
                       /\ solve(p, a, s, g, clock).status = "abort"
                       /\ solve(p, a, s, g, clock).code = EGameAlreadySolved
            /\ \A i \in TileInputs \ {TOTAL_TILES}, k \in KeyInputs :
                 fulfill_reveal(i, k).status = "success")
    /\ [][is_solved =>
            /\ (last' # last
                  /\ last'.op \in {"request_reveal", "commit_guess", "solve"}) =>
                     /\ last'.status = "abort"
                     /\ last'.code = EGameAlreadySolved
            /\ gameVars' # gameVars =>
                  /\ last'.op = "fulfill_reveal"
                  /\ last'.status = "success"]_vars

\* on a solved game a commit_guess was rejected while a tile is still
\* unrevealed and open to fulfill_reveal
C15_Witness ==
    /\ is_solved
    /\ last.op = "commit_guess"
    /\ last.status = "abort"
    /\ last.code = EGameAlreadySolved
    /\ is_none(decrypted_tile_keys[1])
    /\ fulfill_reveal(0, <<1>>).writes.decrypted_tile_keys[1] = Some(<<1>>)

\* the number of TileRevealed events emitted for a tile
RevealedCount(tile_index) ==
    Cardinality({j \in 1..Len(events.revealed) :
                   events.revealed[j].tile_index = tile_index})

\* C16: fulfill_reveal on an already revealed tile succeeds without changing
\* the stored key or anything else and without an event; each tile has at
\* most one TileRevealed event, exactly one once its key is stored.
C16_FulfillRevealedTileIsNoOp ==
    /\ [](created =>
            \A i \in 0..(TOTAL_TILES - 1) :
               /\ RevealedCount(i)
                    = IF is_some(decrypted_tile_keys[i + 1]) THEN 1 ELSE 0
               /\ is_some(decrypted_tile_keys[i + 1]) =>
                     \A k \in KeyInputs :
                        /\ fulfill_reveal(i, k).status = "success"
                        /\ fulfill_reveal(i, k).writes = Game)
    /\ [][(/\ last'.op = "fulfill_reveal"
           /\ last'.args.tile_index < TOTAL_TILES
           /\ is_some(decrypted_tile_keys[last'.args.tile_index + 1])) =>
              /\ last'.status = "success"
              /\ UNCHANGED gameVars]_vars

\* both tiles are revealed and the last fulfill_reveal, accepted, offered a
\* key other than the one stored for its tile
C16_Witness ==
    /\ last.op = "fulfill_reveal"
    /\ last.status = "success"
    /\ last.args.tile_index < TOTAL_TILES
    /\ decrypted_tile_keys[last.args.tile_index + 1] # None
    /\ decrypted_tile_keys[last.args.tile_index + 1]
         # Some(last.args.decrypted_key)
    /\ Len(events.revealed) = 2
    /\ RevealedCount(last.args.tile_index) = 1

\* C17: on a solved game, fulfill_reveal for an in-range tile that is still
\* None is accepted, stores the supplied key, emits TileRevealed and leaves
\* is_solved, winner and pot as they were.
C17_FulfillAcceptedAfterSolved ==
    [][(/\ is_solved
        /\ NewCall("fulfill_reveal")
        /\ last'.args.tile_index < TOTAL_TILES
        /\ is_none(decrypted_tile_keys[last'.args.tile_index + 1])) =>
           /\ last'.status = "success"
           /\ decrypted_tile_keys'
                = [decrypted_tile_keys EXCEPT ![last'.args.tile_index + 1]
                     = Some(last'.args.decrypted_key)]
           /\ events'.revealed
                = Append(events.revealed,
                         [tile_index |-> last'.args.tile_index,
                          decrypted_key |-> last'.args.decrypted_key])
           /\ UNCHANGED <<is_solved, winner, pot, guess_commitments,
                          paid, received>>]_vars

\* the game was solved before any tile was revealed, and the key of the
\* last fulfill_reveal is now stored and announced
C17_Witness ==
    /\ is_solved
    /\ last.op = "fulfill_reveal"
    /\ last.status = "success"
    /\ Len(events.revealed) = 1
    /\ events.revealed[1] = [tile_index |-> last.args.tile_index,
                             decrypted_key |-> last.args.decrypted_key]
    /\ decrypted_tile_keys[last.args.tile_index + 1]
         = Some(last.args.decrypted_key)
    /\ events.solved[1].prize = 2 * TILE_PRICE

\* C18 as stated: a tile key becomes Some only through a successful
\* fulfill_reveal sent by the current owner of the OracleCap; the cap is
\* with the deployer after init, always has exactly one owner, and changes
\* owner only when that owner transfers it.
C18_OnlyCapHolderPublishesKeys ==
    /\ [](/\ cap_owner \in Addresses
          /\ last.op = "init" => cap_owner = ADMIN)
    /\ [][(created /\ \E i \in 1..TOTAL_TILES :
                         decrypted_tile_keys'[i] # decrypted_tile_keys[i]) =>
             /\ last'.op = "fulfill_reveal"
             /\ last'.status = "success"
             /\ last'.sender = cap_owner
             /\ cap_owner' = cap_owner]_vars
    /\ [][cap_owner' # cap_owner =>
             /\ last'.op = "transfer_cap"
             /\ last'.sender = cap_owner
             /\ last'.args.recipient = cap_owner'
             /\ UNCHANGED gameVars]_vars

\* the transactions that move the OracleCap
CapOps == {"transfer_cap", "freeze_cap", "wrap_cap", "unwrap_cap"}

\* C18 amended: a tile key becomes Some only through a successful
\* fulfill_reveal of a sender that can present the OracleCap: its owner,
\* or any address once the cap is frozen or wrapped (a wrapping package
\* can lend it to anyone).  The cap is with the deployer after init and
\* has at most one owner; while an address owns it, only that address can
\* publish and only that address can move it (transfer, freeze or wrap
\* it); a frozen cap stays frozen; no function of the game moves the cap.
C18_OnlyCapPresenterPublishesKeys ==
    /\ [](/\ cap_owner \in Addresses \cup {Immutable, Wrapped}
          /\ last.op = "init" => cap_owner = ADMIN)
    /\ [][(created /\ \E i \in 1..TOTAL_TILES :
                         decrypted_tile_keys'[i] # decrypted_tile_keys[i]) =>
             /\ last'.op = "fulfill_reveal"
             /\ last'.status = "success"
             /\ cap_owner \in {last'.sender, Immutable, Wrapped}
             /\ cap_owner' = cap_owner]_vars
    /\ [][cap_owner' # cap_owner =>
             /\ last'.op \in CapOps
             /\ cap_owner \in Addresses => last'.sender = cap_owner
             /\ cap_owner # Immutable
             /\ last'.args.recipient = cap_owner'
             /\ UNCHANGED gameVars]_vars
    /\ [][last'.op \in EntryOps \cup {"create_game"} =>
             cap_owner' = cap_owner]_vars

\* the deployer froze the cap and PLAYER_B, who never owned it, published
\* a key
C18_Witness ==
    /\ cap_owner = Immutable
    /\ last.op = "fulfill_reveal"
    /\ last.sender = PLAYER_B
    /\ last.status = "success"
    /\ decrypted_tile_keys[last.args.tile_index + 1]
         = Some(last.args.decrypted_key)
    /\ Len(events.revealed) = 1

\* an accepted request_reveal: one more TileRevealRequested event
RequestAccepted == Len(events'.requested) = Len(events.requested) + 1

\* C19: while the game is unsolved the pot is TILE_PRICE times the number
\* of accepted request_reveal calls; the pot changes only by +TILE_PRICE on
\* an accepted request_reveal and by the one settlement to zero.
C19_PotCountsAcceptedRequests ==
    /\ [](created /\ ~is_solved =>
            /\ pot = TILE_PRICE * Len(events.requested)
            /\ pot = SumOver(paid, Addresses))
    /\ [][/\ RequestAccepted =>
               /\ last'.op = "request_reveal"
               /\ last'.status = "success"
               /\ pot' = pot + TILE_PRICE
          /\ pot' # pot =>
               \/ RequestAccepted /\ ~is_solved
               \/ SolveSucceeds /\ pot' = 0
          /\ pot' < pot => SolveSucceeds /\ Len(events.solved) = 0]_vars

\* two requests were accepted and a fulfill_reveal, a commit_guess and a
\* rejected fulfill_reveal have left the pot at twice the price
C19_Witness ==
    /\ ~is_solved
    /\ pot = 2 * TILE_PRICE
    /\ Len(events.requested) = 2
    /\ Len(events.revealed) = 1
    /\ table_contains(guess_commitments, PLAYER_B)
    /\ last.op = "fulfill_reveal"
    /\ last.status = "abort"

\* the preconditions of request_reveal in the current state
CanRequest(tile_index, payment) ==
    /\ ~is_solved
    /\ payment = TILE_PRICE
    /\ tile_index < TOTAL_TILES
    /\ is_none(decrypted_tile_keys[tile_index + 1])

\* C20: request_reveal succeeds exactly on an unsolved game, with the exact
\* price, for an in-range unrevealed tile; it then adds the payment to the
\* pot, emits one TileRevealRequested with the tile and the caller, and
\* leaves every tile key (the requested one stays None), is_solved, winner
\* and the commitments unchanged.
C20_AcceptedRequestEffect ==
    [][(last'.op = "request_reveal" /\ (last' # last \/ RequestAccepted)) =>
          /\ last'.status = "success"
               <=> CanRequest(last'.args.tile_index, last'.args.payment)
          /\ last'.status = "success" =>
               /\ pot' = pot + last'.args.payment
               /\ paid' = [paid EXCEPT ![last'.sender]
                             = @ + last'.args.payment]
               /\ events' = [events EXCEPT !.requested
                               = Append(@, [tile_index |-> last'.args.tile_index,
                                            requester |-> last'.sender])]
               /\ is_none(decrypted_tile_keys'[last'.args.tile_index + 1])
               /\ UNCHANGED <<decrypted_tile_keys, is_solved, winner,
                              guess_commitments, received, creator,
                              answer_hash, walrus_blob_id,
                              encrypted_tile_keys, encryption_ids>>]_vars

\* PLAYER_A's request for tile 99 was accepted while tile 0 was already
\* revealed and PLAYER_B held a commitment
C20_Witness ==
    /\ last.op = "request_reveal"
    /\ last.status = "success"
    /\ last.sender = PLAYER_A
    /\ last.args.tile_index = 99
    /\ events.requested[Len(events.requested)]
         = [tile_index |-> 99, requester |-> PLAYER_A]
    /\ is_none(decrypted_tile_keys[100])
    /\ is_some(decrypted_tile_keys[1])
    /\ table_contains(guess_commitments, PLAYER_B)
    /\ pot = 2 * TILE_PRICE

\* the coin minted by test_game_flow_complete: 1 SUI in base units
TestPayment == 1000000000

\* a game on which nothing has been called since create_game
Fresh ==
    /\ created
    /\ ~is_solved
    /\ pot = 0
    /\ events = NoEvents
    /\ \A a \in Addresses : ~table_contains(guess_commitments, a)

\* C21 as stated: the flow of test_game_flow_complete is accepted at every
\* step: on a fresh game PLAYER_A's request_reveal for tile 0 paying
\* 1_000_000_000 succeeds, so does the oracle's fulfill_reveal for tile 0,
\* and PLAYER_B's commit_guess followed by solve with the right answer.
C21_AuthorsFlowAccepted ==
    /\ Fresh =>
          /\ request_reveal(PLAYER_A, 0, TestPayment).status = "success"
          /\ fulfill_reveal(0, <<1>>).status = "success"
          /\ commit_guess(PLAYER_B, keccak256(<<1>> \o <<2>>), clock).status
               = "success"
    /\ (/\ created
        /\ ~is_solved
        /\ guess_commitments[PLAYER_B]
             = Some([submission_hash |-> keccak256(<<1>> \o <<2>>),
                     timestamp_ms |-> clock])) =>
          solve(PLAYER_B, <<1>>, <<2>>, <<>>, clock).status = "success"

\* C22: on an unsolved game request_reveal with the exact price for an
\* in-range tile whose key is published aborts with ETileAlreadyRevealed;
\* the pot grows only by a request for a tile that is still None.
C22_RevealedTileRequestRejected ==
    /\ [](created /\ ~is_solved =>
            \A p \in Addresses, i \in TileInputs \ {TOTAL_TILES} :
               is_some(decrypted_tile_keys[i + 1]) =>
                  /\ request_reveal(p, i, TILE_PRICE).status = "abort"
                  /\ request_reveal(p, i, TILE_PRICE).code
                       = ETileAlreadyRevealed)
    /\ [][pot' > pot =>
            /\ last'.op = "request_reveal"
            /\ last'.status = "success"
            /\ is_none(decrypted_tile_keys[last'.args.tile_index + 1])]_vars

\* a request paying the exact price for a published tile was turned down
\* on a game whose pot holds one earlier payment
C22_Witness ==
    /\ last.op = "request_reveal"
    /\ last.status = "abort"
    /\ last.code = ETileAlreadyRevealed
    /\ last.line = 148
    /\ last.args.payment = TILE_PRICE
    /\ is_some(decrypted_tile_keys[last.args.tile_index + 1])
    /\ pot = TILE_PRICE

\* C23: commit_guess on an unsolved game stores {submission_hash, clock}
\* under the sender, in place of whatever the sender had stored; a solve by
\* the sender then passes the check of line 233 exactly when it hashes to
\* the digest of this last commit; no address has more than one entry.
C23_LastCommitWins ==
    /\ [](/\ \A a \in Addresses : Len(guess_commitments[a]) <= 1
          /\ (last.op = "commit_guess" /\ last.status = "success"
                /\ ~is_solved
                /\ table_contains(guess_commitments, last.sender)) =>
                \A a \in AnswerInputs, s \in SaltInputs :
                   LET r == solve(last.sender, a, s, <<>>, clock) IN
                      (r.status = "success" \/ r.line = 249)
                         <=> keccak256(a \o s) = last.args.submission_hash)
    /\ [][(/\ last'.op = "commit_guess"
           /\ ~is_solved
           /\ <<last, guess_commitments>>' # <<last, guess_commitments>>) =>
              /\ last'.status = "success"
              /\ guess_commitments'
                   = [guess_commitments EXCEPT ![last'.sender]
                        = Some([submission_hash |-> last'.args.submission_hash,
                                timestamp_ms |-> clock])]]_vars

\* PLAYER_A committed again after the clock moved, with a digest that is
\* not the answer's, while PLAYER_B holds a commitment of its own
C23_Witness ==
    /\ last.op = "commit_guess"
    /\ last.sender = PLAYER_A
    /\ last.status = "success"
    /\ guess_commitments[PLAYER_A]
         = Some([submission_hash |-> keccak256(<<1, 2>>), timestamp_ms |-> 1])
    /\ table_contains(guess_commitments, PLAYER_B)
    /\ guess_commitments[PLAYER_B][1].timestamp_ms = 0

\* C24: the entry of an address in guess_commitments changes only in a
\* commit_guess or solve sent by that address, and a solve succeeds only
\* against the sender's own entry, whatever the others hold.
C24_NoCrossCallerInterference ==
    /\ [](created /\ ~is_solved =>
            \A x \in Addresses, a \in AnswerInputs, s \in SaltInputs :
               solve(x, a, s, <<>>, clock).status = "success" =>
                  /\ table_contains(guess_commitments, x)
                  /\ guess_commitments[x][1].submission_hash
                       = keccak256(a \o s))
    /\ [][\A y \in Addresses :
            guess_commitments'[y] # guess_commitments[y] =>
               /\ last'.op \in {"commit_guess", "solve"}
               /\ last'.sender = y]_vars

\* PLAYER_A has won with its own commitment and PLAYER_B's entry is still
\* the one PLAYER_B stored
C24_Witness ==
    /\ is_solved
    /\ winner = Some(PLAYER_A)
    /\ last.op = "solve"
    /\ last.sender = PLAYER_A
    /\ last.status = "success"
    /\ ~table_contains(guess_commitments, PLAYER_A)
    /\ guess_commitments[PLAYER_B]
         = Some([submission_hash |-> keccak256(<<1>>), timestamp_ms |-> 0])

\* C25 as stated: an address has no entry in guess_commitments once its
\* solve call has returned, and no entry once the game is solved.
C25_NoEntryAfterSolve ==
    /\ last.op = "solve" => ~table_contains(guess_commitments, last.sender)
    /\ is_solved =>
          \A a \in Addresses : ~table_contains(guess_commitments, a)

\* C25 amended: an entry appears only by the address's own accepted
\* commit_guess and disappears only by its own successful solve; a rejected
\* solve leaves the sender's entry in place, the entries of the addresses
\* that did not win stay after the game is solved, and the winner has none.
C25_EntryLivesFromCommitToWinningSolve ==
    /\ [](/\ is_solved => ~table_contains(guess_commitments, winner[1])
          /\ (last.op = "solve" /\ last.line \in {233, 249}) =>
                table_contains(guess_commitments, last.sender))
    /\ [][\A y \in Addresses :
            /\ (/\ ~table_contains(guess_commitments, y)
                /\ table_contains(guess_commitments', y)) =>
                   /\ last'.op = "commit_guess"
                   /\ last'.sender = y
                   /\ last'.status = "success"
            /\ (/\ table_contains(guess_commitments, y)
                /\ ~table_contains(guess_commitments', y)) =>
                   /\ last'.op = "solve"
                   /\ last'.sender = y
                   /\ last'.status = "success"
                   /\ winner' = Some(y)]_vars

\* PLAYER_B's solve came back rejected on a game PLAYER_A had won, and
\* PLAYER_B's entry is still in the table
C25_Witness ==
    /\ is_solved
    /\ winner = Some(PLAYER_A)
    /\ ~table_contains(guess_commitments, PLAYER_A)
    /\ last.op = "solve"
    /\ last.sender = PLAYER_B
    /\ last.status = "abort"
    /\ table_contains(guess_commitments, PLAYER_B)

\* C26: on an unsolved game a solve by a sender with no entry in
\* guess_commitments aborts with ENoCommitmentFound for every answer
\* (the right one included), user_salt and game_salt.
C26_NoCommitmentFound ==
    /\ (created /\ ~is_solved) =>
          \A p \in Addresses :
             ~table_contains(guess_commitments, p) =>
                \A a \in AnswerInputs, s \in SaltInputs, g \in GameSaltInputs :
                   LET r == solve(p, a, s, g, clock) IN
                      /\ r.status = "abort"
                      /\ r.code = ENoCommitmentFound
                      /\ r.line = 222
    /\ (/\ last.op = "solve"
        /\ ~is_solved
        /\ ~table_contains(guess_commitments, last.sender)) =>
           /\ last.status = "abort"
           /\ last.code = ENoCommitmentFound

\* PLAYER_B sent the right answer without a commitment and was rejected,
\* while PLAYER_A holds a commitment to that answer
C26_Witness ==
    /\ last.op = "solve"
    /\ last.sender = PLAYER_B
    /\ last.args.answer_input = <<1>>
    /\ IsCorrect(last.args.answer_input)
    /\ last.status = "abort"
    /\ last.code = ENoCommitmentFound
    /\ guess_commitments[PLAYER_A]
         = Some([submission_hash |-> keccak256(<<1>>), timestamp_ms |-> 0])

\* C27: solve does not read game_salt: from any state, two calls that
\* differ only in game_salt have the same outcome (success, or the same
\* abort) and leave the same game; a solve that passed line 233 succeeds
\* exactly when keccak256(answer_input) = answer_hash.
C27_GameSaltIgnored ==
    /\ created =>
          \A p \in Addresses, a \in AnswerInputs, s \in SaltInputs :
             \A g1 \in GameSaltInputs, g2 \in GameSaltInputs :
                /\ solve(p, a, s, g1, clock) = solve(p, a, s, g2, clock)
                /\ Commit(solve(p, a, s, g1, clock))
                     = Commit(solve(p, a, s, g2, clock))
    /\ (last.op = "solve" /\ last.status = "success") =>
          IsCorrect(last.args.answer_input)
    /\ (last.op = "solve" /\ last.line = 249) =>
          ~IsCorrect(last.args.answer_input)

\* a solve won with a game_salt that is not empty and that, appended to
\* the answer, does not hash to answer_hash
C27_Witness ==
    /\ is_solved
    /\ last.op = "solve"
    /\ last.status = "success"
    /\ last.args.game_salt = <<2>>
    /\ keccak256(last.args.answer_input \o last.args.game_salt) # answer_hash
    /\ winner = Some(last.sender)

\* C28: solve never aborts with ECommitmentTooFresh, and on an unsolved
\* game a solve whose clock reading is not greater than the timestamp of
\* the sender's commitment succeeds whenever both hash checks pass.
C28_NoMinimumDelay ==
    /\ (created /\ ~is_solved) =>
          \A p \in Addresses, a \in AnswerInputs, s \in SaltInputs,
             now \in 0..MaxClock :
                LET r == solve(p, a, s, <<>>, now) IN
                   /\ r.code # ECommitmentTooFresh
                   /\ (/\ table_contains(guess_commitments, p)
                       /\ now <= guess_commitments[p][1].timestamp_ms
                       /\ guess_commitments[p][1].submission_hash
                            = keccak256(a \o s)
                       /\ IsCorrect(a)) => r.status = "success"
    /\ last.op = "solve" =>
          /\ last.code # ECommitmentTooFresh
          /\ last.line # 227

\* a game was won before the clock moved and before anything was paid:
\* the winning solve ran at the clock reading of its commit_guess
C28_Witness ==
    /\ is_solved
    /\ clock = 0
    /\ last.op = "solve"
    /\ last.status = "success"
    /\ events.requested = <<>>
    /\ events.solved = <<[winner |-> last.sender, prize |-> 0]>>

\* C29: create_game aborts with EInvalidPayment unless encrypted_keys and
\* encryption_ids_bytes both have length TOTAL_TILES; in a created game
\* encrypted_tile_keys, encryption_ids and decrypted_tile_keys all have
\* length TOTAL_TILES.
C29_TileVectorsHaveTileCount ==
    /\ created =>
          /\ Len(encrypted_tile_keys) = TOTAL_TILES
          /\ Len(encryption_ids) = TOTAL_TILES
          /\ Len(decrypted_tile_keys) = TOTAL_TILES
    /\ \A nk \in LengthInputs, ni \in LengthInputs, v \in BOOLEAN :
          LET r == create_game(ADMIN, AnswerHashInput, <<1>>,
                               EncryptedKeys(nk), IdBytes(ni, v)) IN
             /\ (nk # TOTAL_TILES \/ ni # TOTAL_TILES) =>
                   /\ r.status = "abort"
                   /\ r.code = EInvalidPayment
                   /\ r.line \in {95, 96}
             /\ r.status = "success" =>
                   /\ Len(r.writes.encrypted_tile_keys) = TOTAL_TILES
                   /\ Len(r.writes.encryption_ids) = TOTAL_TILES
                   /\ Len(r.writes.decrypted_tile_keys) = TOTAL_TILES
    /\ (/\ last.op = "create_game"
        /\ (last.args.n_keys # TOTAL_TILES \/ last.args.n_ids # TOTAL_TILES)) =>
           /\ last.status = "abort"
           /\ last.code = EInvalidPayment
           /\ ~created

\* a create_game with 100 ciphertexts and 101 ids was rejected
C29_Witness ==
    /\ last.op = "create_game"
    /\ last.args.n_keys = TOTAL_TILES
    /\ last.args.n_ids = TOTAL_TILES + 1
    /\ last.status = "abort"
    /\ last.code = EInvalidPayment
    /\ last.line = 96
    /\ ~created

\* the fields of Game that only create_game writes
WriteOnce == <<creator, answer_hash, walrus_blob_id, encrypted_tile_keys,
               encryption_ids>>

\* C30: creator, answer_hash, walrus_blob_id, encrypted_tile_keys and
\* encryption_ids keep the values create_game gave them through every
\* request_reveal, fulfill_reveal, commit_guess and solve, accepted or not.
C30_WriteOnceFields ==
    /\ [](created =>
            /\ creator = ADMIN
            /\ answer_hash = AnswerHashInput
            /\ walrus_blob_id = <<1>>
            /\ encrypted_tile_keys = EncryptedKeys(TOTAL_TILES)
            /\ encryption_ids = IdBytes(TOTAL_TILES, TRUE))
    /\ [][created => UNCHANGED WriteOnce]_vars
    /\ [][WriteOnce' # WriteOnce =>
            /\ last'.op = "create_game"
            /\ last'.status = "success"]_vars

\* both tiles were paid for and published and the game was solved
C30_Witness ==
    /\ is_solved
    /\ Len(events.requested) = 2
    /\ is_some(decrypted_tile_keys[1])
    /\ is_some(decrypted_tile_keys[TOTAL_TILES])
    /\ table_contains(guess_commitments, PLAYER_B) = FALSE
    /\ encrypted_tile_keys = EncryptedKeys(TOTAL_TILES)
    /\ creator = ADMIN

\* C31 as stated: fulfill_reveal with a tile index outside [0, TOTAL_TILES)
\* aborts with EInvalidTileIndex and changes nothing.
C31_FulfillOutOfRangeInvalidTileIndex ==
    (last.op = "fulfill_reveal" /\ last.args.tile_index >= TOTAL_TILES) =>
        /\ last.status = "abort"
        /\ last.code = EInvalidTileIndex

\* C33: request_reveal does not look for an outstanding request: on an
\* unsolved game every exact-price request for an in-range tile that is
\* still None is accepted, however many requests for that tile were
\* accepted before, each adding TILE_PRICE and its own event.
C33_RepeatedRequestsAccepted ==
    (created /\ ~is_solved) =>
        \A p \in Addresses, i \in TileInputs \ {TOTAL_TILES} :
           is_none(decrypted_tile_keys[i + 1]) =>
              LET r == request_reveal(p, i, TILE_PRICE) IN
                 /\ r.status = "success"
                 /\ r.writes.pot = pot + TILE_PRICE
                 /\ r.writes.events.requested
                      = Append(events.requested,
                               [tile_index |-> i, requester |-> p])

\* tile 0 was paid for by PLAYER_A and then by PLAYER_B and is still None
C33_Witness ==
    /\ events.requested = <<[tile_index |-> 0, requester |-> PLAYER_A],
                            [tile_index |-> 0, requester |-> PLAYER_B]>>
    /\ is_none(decrypted_tile_keys[1])
    /\ pot = 2 * TILE_PRICE
    /\ paid[PLAYER_A] = TILE_PRICE
    /\ paid[PLAYER_B] = TILE_PRICE
    /\ last.op = "request_reveal"
    /\ last.status = "success"

\* the number of accepted requests for a tile
RequestedCount(tile_index) ==
    Cardinality({j \in 1..Len(events.requested) :
                   events.requested[j].tile_index = tile_index})

\* C34: fulfill_reveal needs no request: for an in-range tile that is None
\* it stores the key and emits TileRevealed whether or not any
\* request_reveal for the tile was accepted.
C34_FulfillWithoutRequest ==
    created =>
        \A i \in TileInputs \ {TOTAL_TILES}, k \in KeyInputs :
           is_none(decrypted_tile_keys[i + 1]) =>
              LET r == fulfill_reveal(i, k) IN
                 /\ r.status = "success"
                 /\ r.writes.decrypted_tile_keys[i + 1] = Some(k)
                 /\ r.writes.events.revealed
                      = Append(events.revealed,
                               [tile_index |-> i, decrypted_key |-> k])
                 /\ r.writes.pot = pot

\* the key of tile 99 is published, nothing was ever paid for tile 99 and
\* the only payment in the pot is for tile 0
C34_Witness ==
    /\ created
    /\ is_some(decrypted_tile_keys[TOTAL_TILES])
    /\ RequestedCount(TOTAL_TILES - 1) = 0
    /\ RequestedCount(0) = 1
    /\ pot = TILE_PRICE
    /\ last.op = "fulfill_reveal"
    /\ last.args.tile_index = TOTAL_TILES - 1
    /\ last.status = "success"

\* what request_reveal answers in this state: the first failed assert
RequestRevealLine(tile_index, payment) ==
    IF is_solved THEN 142
    ELSE IF payment # TILE_PRICE THEN 143
    ELSE IF tile_index >= TOTAL_TILES THEN 144
    ELSE IF is_some(decrypted_tile_keys[tile_index + 1]) THEN 148
    ELSE 0

\* the abort code raised by the assert at a line of request_reveal
RequestRevealCode(line) ==
    IF line = 142 THEN EGameAlreadySolved
    ELSE IF line = 143 THEN EInvalidPayment
    ELSE IF line = 144 THEN EInvalidTileIndex
    ELSE IF line = 148 THEN ETileAlreadyRevealed
    ELSE 0

\* C35: request_reveal reports the first violated precondition in the
\* order EGameAlreadySolved, EInvalidPayment, EInvalidTileIndex,
\* ETileAlreadyRevealed, and succeeds when none is violated.
C35_RequestRevealPrecedence ==
    /\ created =>
          \A p \in Addresses, i \in TileInputs, c \in PaymentInputs :
             LET r == request_reveal(p, i, c) IN
                /\ r.line = RequestRevealLine(i, c)
                /\ r.code = RequestRevealCode(r.line)
                /\ r.status = "success" <=> r.line = 0
    /\ (last.op = "request_reveal" /\ last.status = "abort") =>
          /\ last.line
               = RequestRevealLine(last.args.tile_index, last.args.payment)
          /\ last.code = RequestRevealCode(last.line)

\* an underpaid request for a published tile was rejected for the payment
C35_Witness ==
    /\ last.op = "request_reveal"
    /\ ~is_solved
    /\ last.args.payment = TILE_PRICE - 1
    /\ last.args.tile_index < TOTAL_TILES
    /\ is_some(decrypted_tile_keys[last.args.tile_index + 1])
    /\ last.status = "abort"
    /\ last.code = EInvalidPayment
    /\ last.line = 143

\* what solve answers in this state: the first failed assert
SolveLine(sender, answer_input, user_salt) ==
    IF is_solved THEN 218
    ELSE IF ~table_contains(guess_commitments, sender) THEN 222
    ELSE IF keccak256(answer_input \o user_salt)
              # guess_commitments[sender][1].submission_hash THEN 233
    ELSE IF keccak256(answer_input) # answer_hash THEN 249
    ELSE 0

\* the abort code raised by the assert at a line of solve
SolveCode(line) ==
    IF line = 218 THEN EGameAlreadySolved
    ELSE IF line = 222 THEN ENoCommitmentFound
    ELSE IF line \in {233, 249} THEN EIncorrectAnswer
    ELSE 0

\* C36: solve reports the first violated check in the order
\* EGameAlreadySolved, ENoCommitmentFound, EIncorrectAnswer of the
\* commitment check (233), EIncorrectAnswer of the answer check (249); a
\* sender who opens its own commitment to a wrong answer is rejected at 249.
C36_SolvePrecedence ==
    /\ created =>
          \A p \in Addresses, a \in AnswerInputs, s \in SaltInputs :
             LET r == solve(p, a, s, <<>>, clock) IN
                /\ r.line = SolveLine(p, a, s)
                /\ r.code = SolveCode(r.line)
                /\ r.status = "success" <=> r.line = 0
    /\ (last.op = "solve" /\ last.status = "abort") =>
          /\ last.line = SolveLine(last.sender, last.args.answer_input,
                                   last.args.user_salt)
          /\ last.code = SolveCode(last.line)

\* PLAYER_A opened its own commitment to the wrong answer <<1, 2>> and was
\* rejected by the answer check, while PLAYER_B's commitment is to the
\* right answer
C36_Witness ==
    /\ last.op = "solve"
    /\ last.sender = PLAYER_A
    /\ last.status = "abort"
    /\ last.line = 249
    /\ last.code = EIncorrectAnswer
    /\ last.args.answer_input = <<1, 2>>
    /\ SolveLine(PLAYER_A, <<1, 2>>, last.args.user_salt) = 249
    /\ SolveLine(PLAYER_B, <<1>>, <<>>) = 0

\* C37: solve succeeds on a game whose pot is 0: the game is solved, the
\* sender is winner, the payout and the prize of GameSolved are 0, and from
\* then on the pot stays 0 because every request_reveal is rejected.
C37_SolveWithEmptyPot ==
    /\ (created /\ ~is_solved /\ pot = 0) =>
          \A p \in Addresses, a \in AnswerInputs, s \in SaltInputs :
             SolveLine(p, a, s) = 0 =>
                LET r == solve(p, a, s, <<>>, clock) IN
                   /\ r.status = "success"
                   /\ r.writes.is_solved
                   /\ r.writes.winner = Some(p)
                   /\ r.writes.pot = 0
                   /\ r.writes.received[p] = received[p]
                   /\ r.writes.events.solved = <<[winner |-> p, prize |-> 0]>>
    /\ (is_solved /\ events.requested = <<>>) =>
          /\ pot = 0
          /\ events.solved = <<[winner |-> winner[1], prize |-> 0]>>
          /\ received = [a \in Addresses |-> 0]
          /\ \A p \in Addresses, i \in TileInputs, c \in PaymentInputs :
                request_reveal(p, i, c).status = "abort"

\* a game was won with nothing in the pot, and an exact-price request
\* made afterwards was rejected
C37_Witness ==
    /\ is_solved
    /\ events.requested = <<>>
    /\ events.solved = <<[winner |-> winner[1], prize |-> 0]>>
    /\ pot = 0
    /\ last.op = "request_reveal"
    /\ last.args.payment = TILE_PRICE
    /\ last.args.tile_index = 0
    /\ last.status = "abort"
    /\ last.code = EGameAlreadySolved

\* C32 as stated: once a request_reveal for a tile has been accepted, the
\* running and fairly scheduled bot sees to it that the tile's key is
\* eventually published, also when one of its calls fails once.
C32_RequestedTileEventuallyRevealed ==
    \A i \in {0, TOTAL_TILES - 1} :
       (created /\ RequestedCount(i) > 0)
          ~> (created /\ is_some(decrypted_tile_keys[i + 1]))

\* handleRevealRequest has returned for one more event
Handled == Len(bot'.log) = Len(bot.log) + 1
\* how the handling that has just ended went
LastOutcome == bot'.log[Len(bot'.log)].outcome

\* C38 as stated: the bot goes on to recover and send a key only when the
\* game it has read holds None for the tile; when the game holds a key for
\* the tile the bot returns without a transaction.  When the tile has been
\* published by someone else between that read and the bot's transaction,
\* the bot's fulfill_reveal succeeds and leaves the stored key and the
\* events as they were.
C38_BotSkipsRevealedAndStaleFulfillIsNoOp ==
    /\ [][(bot.pc = "getObject" /\ bot' # bot /\ bot'.faults = bot.faults) =>
            IF is_some(decrypted_tile_keys[CurrentTile + 1])
            THEN /\ Handled
                 /\ LastOutcome = "skipped"
                 /\ UNCHANGED <<gameVars, last>>
            ELSE bot'.pc = "recover"]_vars
    /\ [][(bot.pc = "signAndExecute" /\ Handled /\ LastOutcome = "executed") =>
            /\ last' = [op |-> "fulfill_reveal", sender |-> BOT,
                        args |-> [tile_index |-> CurrentTile,
                                  decrypted_key |-> decryptedKey(CurrentTile)],
                        status |-> "success", code |-> 0, line |-> 0]
            /\ is_some(decrypted_tile_keys[CurrentTile + 1]) =>
                  UNCHANGED gameVars
            /\ is_none(decrypted_tile_keys[CurrentTile + 1]) =>
                  decrypted_tile_keys'[CurrentTile + 1]
                     = Some(decryptedKey(CurrentTile))]_vars
    /\ [](bot.pc \in {"recover", "signAndExecute"} =>
            /\ bot.idx \in 1..Len(bot.page)
            /\ CurrentEvent \in 1..Len(events.requested))

\* C39: the bot handles the events in ascending order and each at most
\* once; the cursor never moves back, moves only when the last event of a
\* fetched page has been handled, and then to that event; a failed query
\* leaves the cursor and is followed by another query; an event whose
\* handling failed is behind the cursor and is not handled again.
C39_EventsHandledOnceInOrder ==
    /\ [](/\ \A j \in 1..Len(bot.log), k \in 1..Len(bot.log) :
               j < k => bot.log[j].event < bot.log[k].event
          /\ \A j \in 1..Len(bot.log) :
               bot.log[j].event
                  <= bot.cursor + (IF bot.idx = 0 THEN 0 ELSE bot.idx - 1)
          /\ bot.cursor <= Len(events.requested)
          /\ bot.pc = "queryEvents" =>
                /\ bot.page = <<>>
                /\ Len(bot.log) = bot.cursor
          /\ bot.pc # "queryEvents" =>
                /\ bot.page # <<>>
                /\ \A n \in 1..Len(bot.page) : bot.page[n] = bot.cursor + n)
    /\ [][/\ bot'.cursor >= bot.cursor
          /\ bot'.cursor # bot.cursor =>
                /\ Handled
                /\ bot.idx = Len(bot.page)
                /\ bot'.cursor = bot.page[Len(bot.page)]
                /\ bot'.pc = "queryEvents"
          /\ (bot.pc = "queryEvents" /\ bot'.faults # bot.faults) =>
                /\ bot'.cursor = bot.cursor
                /\ bot'.pc = "queryEvents"
                /\ bot'.log = bot.log
          /\ (Handled /\ LastOutcome \in {"error", "decrypt_failed", "tx_failed"}) =>
                /\ bot'.log[Len(bot'.log)].event = CurrentEvent
                /\ UNCHANGED <<gameVars, last>>
                /\ bot'.pc = "queryEvents" => bot'.cursor >= CurrentEvent
                /\ bot'.pc # "queryEvents" => bot'.idx = bot.idx + 1]_vars

\* the key recovery for the first request of tile 0 failed; the bot went
\* on, is polling again with the cursor behind both events, and tile 0 was
\* published only through the second request for it
C39_Witness ==
    /\ Len(bot.log) = 2
    /\ bot.log[1] = [event |-> 1, outcome |-> "decrypt_failed"]
    /\ bot.log[2] = [event |-> 2, outcome |-> "executed"]
    /\ events.requested[1].tile_index = 0
    /\ events.requested[2].tile_index = 0
    /\ bot.cursor = 2
    /\ bot.pc = "queryEvents"
    /\ decrypted_tile_keys[1] = Some(decryptedKey(0))

====
